---- MODULE Spec2Model ----
(***************************************************************************)
(* The CMAC provider of providers/common/macs/cmac_prov.c as a state       *)
(* machine: the MAC contexts (struct cmac_data_st), the CMAC_CTX each one  *)
(* owns, the reference counts of the fetched cipher descriptors and of the *)
(* legacy engine, and one action per entry of cmac_functions[].            *)
(*                                                                         *)
(* CMAC_Init, CMAC_Update, CMAC_Final and CMAC_CTX_copy, the cipher        *)
(* registry and the engine registry are collaborators whose code is not    *)
(* part of cmac_prov.c; they are modelled from the specification's         *)
(* description of the collaborator interfaces.                             *)
(***************************************************************************)
EXTENDS Integers, Sequences, FiniteSets, TLC

VARIABLES
    mode,      \* "Standard" or "Restricted" (FIPS_MODE): fixed at build time
    live,      \* the MAC contexts that are allocated
    macctx,    \* struct cmac_data_st of every context slot
    cmacs,     \* the CMAC_CTX objects, indexed by the pointer macctx[c].ctx
    refs,      \* outstanding references on every fetched cipher descriptor
    engRefs,   \* outstanding references on the engine
    engBad,    \* an engine reference was released that nobody held
    crashed,   \* the process dereferenced a null pointer
    last,      \* the call that returned last, with its result
    hist       \* per context: what the caller has done to it so far

vars == <<mode, live, macctx, cmacs, refs, engRefs, engBad, crashed, last, hist>>

---------------------------------------------------------------------------
(* Bounds of the model *)

\* number of context slots
MaxCtx == 2
\* longest message a context absorbs
MaxMsgLen == 2
\* most engine references outstanding at once
MaxEngRefs == 1

---------------------------------------------------------------------------
(* Values *)

NULL == "NULL"
NullCtx == 0
Ctx == 1..MaxCtx

\* OSSL_PARAM lookups: a parameter is absent, present with another data type
\* than the one the code expects, or present with a value
ABSENT == "ABSENT"
BADTYPE == "BADTYPE"

CipherNames == {"AES-128-CBC", "DES-EDE3-CBC"}
EngineIds == {"e1", "noeng"}
PropQueries == {"provider=none"}
Keys == {"k16", "k24"}
Bytes == {0}
OutSizes == {7, 16}
Modes == {"Standard", "Restricted"}

\* The cipher registry of the model.  The provider implements both names
\* (for the default property query only), the legacy name table holds
\* DES-EDE3-CBC alone.  The fetched descriptor of a name is reference
\* counted, the legacy one is a static table entry.
FetchedNames == {"AES-128-CBC", "DES-EDE3-CBC"}
LegacyNames == {"DES-EDE3-CBC"}
Fetched(name) ==
    IF name = "AES-128-CBC" THEN "fetched AES-128-CBC"
    ELSE "fetched DES-EDE3-CBC"
Legacy(name) == "legacy DES-EDE3-CBC"
FetchedCiphers == {"fetched AES-128-CBC", "fetched DES-EDE3-CBC"}
LegacyCiphers == {"legacy DES-EDE3-CBC"}
Ciphers == FetchedCiphers \cup LegacyCiphers

BlockSize(cipher) == IF cipher = "fetched AES-128-CBC" THEN 16 ELSE 8

KeyLength(cipher) == IF cipher = "fetched AES-128-CBC" THEN 16 ELSE 24

KeyBytes(key) == IF key = "k16" THEN 16 ELSE 24

Chunks == {<<>>} \cup {<<b>> : b \in Bytes}

---------------------------------------------------------------------------
(* The collaborators, from the specification's section 6 *)

\* CMAC_CTX_new(): a computation state with no cipher, no key, not
\* initialised.  inited is "the state is live" (Bound or later), finalized is
\* the finalized flag, msg the bytes absorbed since the last bind.
CMAC_CTX_new ==
    [cipher |-> NULL, key |-> NULL, inited |-> FALSE, finalized |-> FALSE,
     msg |-> <<>>]

\* bind(cipher, engine, key, keyLen) -> ComputationState | Error.
\* With no key, no cipher and no engine it restarts a bound state and fails on
\* a state that was never bound.  A cipher is installed first; a key is then
\* bound to the installed cipher, which fails when there is none (NotConfigured)
\* or when the cipher rejects the key (BindingFailure).
CMAC_Init(cm, key, cipher, impl) ==
    IF key = NULL /\ cipher = NULL /\ impl = NULL
    THEN IF ~cm.inited
         THEN [cm |-> cm, rv |-> 0]
         ELSE [cm |-> [cm EXCEPT !.msg = <<>>, !.finalized = FALSE], rv |-> 1]
    ELSE LET cm1 == IF cipher # NULL
                    THEN [cm EXCEPT !.cipher = cipher, !.key = NULL]
                    ELSE cm
         IN  IF key = NULL THEN [cm |-> cm1, rv |-> 1]
             ELSE IF cm1.cipher = NULL THEN [cm |-> cm1, rv |-> 0]
             ELSE IF KeyBytes(key) # KeyLength(cm1.cipher)
                  THEN [cm |-> cm1, rv |-> 0]
             ELSE [cm |-> [cm1 EXCEPT !.key = key, !.inited = TRUE,
                                      !.finalized = FALSE, !.msg = <<>>],
                   rv |-> 1]

\* absorb(state, bytes): valid only from Bound or Updated
CMAC_Update(cm, data) ==
    IF ~cm.inited \/ cm.finalized
    THEN [cm |-> cm, rv |-> 0]
    ELSE [cm |-> [cm EXCEPT !.msg = cm.msg \o data], rv |-> 1]

\* the MAC a computation state drains to: a function of cipher, key and message
MacOf(cm) == <<cm.cipher, cm.key, cm.msg>>

\* drain(state) -> bytes: writes the block size of the bound cipher to *outl
\* and that many bytes to out, and finalizes the state; fails (writing
\* nothing) on a state that is not bound or is finalized already.  It is not
\* told the capacity of out.
CMAC_Final(cm) ==
    IF ~cm.inited \/ cm.finalized
    THEN [cm |-> cm, rv |-> 0, outl |-> 0]
    ELSE [cm |-> [cm EXCEPT !.finalized = TRUE], rv |-> 1,
          outl |-> BlockSize(cm.cipher)]

\* copy(state) -> state: a value copy, which may fail
CMAC_CTX_copy(out, in, ok) ==
    IF ok THEN [cm |-> in, rv |-> 1] ELSE [cm |-> out, rv |-> 0]

\* the block size of the cipher installed in the computation state; with no
\* cipher installed the read goes through a null pointer
UB == -1
EVP_CIPHER_CTX_block_size(cm) ==
    IF cm.cipher = NULL THEN UB ELSE BlockSize(cm.cipher)

\* fetch(name, propertyQuery) -> ResolvedCipher | Unresolved: a new reference
\* on the descriptor of the name, when an implementation matches the query
EVP_CIPHER_fetch(name, propquery) ==
    IF name \in FetchedNames /\ propquery = NULL THEN Fetched(name) ELSE NULL

\* legacyLookup(name) -> ResolvedCipher | Unresolved: no reference is taken
EVP_get_cipherbyname(name) ==
    IF name \in LegacyNames THEN Legacy(name) ELSE NULL

\* increment(handle); it may fail
EVP_CIPHER_up_ref(r, cipher, ok) ==
    IF ok THEN [r EXCEPT ![cipher] = @ + 1] ELSE r

\* release(handle); releasing NULL does nothing
EVP_CIPHER_meth_free(r, cipher) ==
    IF cipher = NULL THEN r ELSE [r EXCEPT ![cipher] = @ - 1]

\* byId(id) -> EngineHandle | Unresolved: a new reference on the engine
ENGINE_by_id(id) == IF id = "e1" THEN "e1" ELSE NULL

\* release(EngineHandle) on the counters <<engRefs, engBad>>; releasing NULL
\* does nothing, releasing a reference nobody holds is recorded
ENGINE_finish(e, engine) ==
    IF engine = NULL THEN e
    ELSE IF e.refs > 0 THEN [e EXCEPT !.refs = @ - 1]
    ELSE [e EXCEPT !.bad = TRUE]

---------------------------------------------------------------------------
(* struct cmac_data_st and the operations of cmac_prov.c *)

\* a context slot that is not allocated; OPENSSL_zalloc gives the same fields
NoMacCtx ==
    [ctx |-> NullCtx, tmpcipher |-> NULL, alloc_cipher |-> NULL,
     tmpengine |-> NULL]

\* the CMAC_CTX that macctx->ctx points to
CtxOf(M, C, c) == C[M[c].ctx]

\* cmac_new: slot is the address the allocator returns, NullCtx when either
\* allocation fails
cmac_new(M, C, slot) ==
    IF slot = NullCtx
    THEN [M |-> M, C |-> C, rv |-> NullCtx]
    ELSE [M |-> [M EXCEPT ![slot] = [NoMacCtx EXCEPT !.ctx = slot]],
          C |-> [C EXCEPT ![slot] = CMAC_CTX_new],
          rv |-> slot]

\* cmac_free
cmac_free(M, C, R, c) ==
    IF c = NullCtx
    THEN [M |-> M, C |-> C, R |-> R]
    ELSE [M |-> [M EXCEPT ![c] = NoMacCtx],
          C |-> [C EXCEPT ![M[c].ctx] = CMAC_CTX_new],
          R |-> EVP_CIPHER_meth_free(R, M[c].alloc_cipher)]

\* cmac_dup sharing the source's CMAC_CTX with the copy
cmac_dup_shares_ctx(M, C, R, src, dst, copyOk, upOk) ==
    LET n == cmac_new(M, C, dst)
    IN  IF ~copyOk \/ (M[src].alloc_cipher # NULL /\ ~upOk)
        THEN LET f == cmac_free(n.M, n.C, R, dst)
             IN  [M |-> f.M, C |-> f.C, R |-> f.R, rv |-> NullCtx]
        ELSE [M |-> [n.M EXCEPT ![dst] = M[src]],
              C |-> n.C,
              R |-> IF M[src].alloc_cipher # NULL
                    THEN EVP_CIPHER_up_ref(R, M[src].alloc_cipher, TRUE)
                    ELSE R,
              rv |-> dst]

\* cmac_dup returning NULL without freeing the destination
cmac_dup_keeps_dst(M, C, R, src, dst, copyOk, upOk) ==
    LET n == cmac_new(M, C, dst)
        cp == CMAC_CTX_copy(CtxOf(n.M, n.C, dst), CtxOf(n.M, n.C, src), copyOk)
        C1 == [n.C EXCEPT ![n.M[dst].ctx] = cp.cm]
    IN  IF cp.rv = 0 \/ (M[src].alloc_cipher # NULL /\ ~upOk)
        THEN [M |-> n.M, C |-> C1, R |-> R, rv |-> NullCtx]
        ELSE [M |-> [n.M EXCEPT ![dst].tmpengine = M[src].tmpengine,
                                ![dst].tmpcipher = M[src].tmpcipher,
                                ![dst].alloc_cipher = M[src].alloc_cipher],
              C |-> C1,
              R |-> EVP_CIPHER_up_ref(R, M[src].alloc_cipher,
                                      M[src].alloc_cipher # NULL),
              rv |-> dst]

\* cmac_dup copying the owned cipher without a reference of its own
cmac_dup_takes_no_ref(M, C, R, src, dst, copyOk, upOk) ==
    LET n == cmac_new(M, C, dst)
        cp == CMAC_CTX_copy(CtxOf(n.M, n.C, dst), CtxOf(n.M, n.C, src), copyOk)
        C1 == [n.C EXCEPT ![n.M[dst].ctx] = cp.cm]
    IN  IF cp.rv = 0
        THEN LET f == cmac_free(n.M, C1, R, dst)
             IN  [M |-> f.M, C |-> f.C, R |-> f.R, rv |-> NullCtx]
        ELSE [M |-> [n.M EXCEPT ![dst].tmpengine = M[src].tmpengine,
                                ![dst].tmpcipher = M[src].tmpcipher,
                                ![dst].alloc_cipher = M[src].alloc_cipher],
              C |-> C1, R |-> R, rv |-> dst]

\* cmac_dup after a destination was allocated at dst
cmac_dup(M, C, R, src, dst, copyOk, upOk) ==
    LET n == cmac_new(M, C, dst)
        cp == CMAC_CTX_copy(CtxOf(n.M, n.C, dst), CtxOf(n.M, n.C, src), copyOk)
        C1 == [n.C EXCEPT ![n.M[dst].ctx] = cp.cm]
    IN  IF cp.rv = 0
        THEN LET f == cmac_free(n.M, C1, R, dst)
             IN  [M |-> f.M, C |-> f.C, R |-> f.R, rv |-> NullCtx]
        ELSE IF M[src].alloc_cipher # NULL /\ ~upOk
        THEN LET f == cmac_free(n.M, C1, R, dst)
             IN  [M |-> f.M, C |-> f.C, R |-> f.R, rv |-> NullCtx]
        ELSE [M |-> [n.M EXCEPT ![dst].tmpengine = M[src].tmpengine,
                                ![dst].tmpcipher = M[src].tmpcipher,
                                ![dst].alloc_cipher = M[src].alloc_cipher],
              C |-> C1,
              R |-> IF M[src].alloc_cipher # NULL
                    THEN EVP_CIPHER_up_ref(R, M[src].alloc_cipher, TRUE)
                    ELSE R,
              rv |-> dst]

\* cmac_size
cmac_size(m, cm) == EVP_CIPHER_CTX_block_size(cm)

\* cmac_init dropping the result of CMAC_Init
cmac_init_returns_1(m, cm) ==
    LET r == CMAC_Init(cm, NULL, m.tmpcipher, m.tmpengine)
    IN  [m |-> [m EXCEPT !.tmpcipher = NULL, !.tmpengine = NULL],
         cm |-> r.cm, rv |-> 1, cipher |-> m.tmpcipher,
         engine |-> m.tmpengine]

\* cmac_init: cipher and engine are the staged ones handed to CMAC_Init
cmac_init(m, cm) ==
    LET r == CMAC_Init(cm, NULL, m.tmpcipher, m.tmpengine)
    IN  [m |-> [m EXCEPT !.tmpcipher = NULL, !.tmpengine = NULL],
         cm |-> r.cm, rv |-> r.rv, cipher |-> m.tmpcipher,
         engine |-> m.tmpengine]

\* cmac_update dropping the result of CMAC_Update
cmac_update_returns_1(m, cm, data) ==
    LET r == CMAC_Update(cm, data)
    IN  [cm |-> r.cm, rv |-> 1]

\* cmac_update
cmac_update(m, cm, data) ==
    LET r == CMAC_Update(cm, data)
    IN  [cm |-> r.cm, rv |-> r.rv]

\* cmac_final dropping the result of CMAC_Final
cmac_final_returns_1(m, cm, outsize) ==
    LET r == CMAC_Final(cm)
    IN  [cm |-> r.cm, rv |-> 1, written |-> r.outl]

\* cmac_final: written is the number of bytes stored through out
cmac_final(m, cm, outsize) ==
    LET r == CMAC_Final(cm)
    IN  [cm |-> r.cm, rv |-> r.rv, written |-> r.outl]

\* cmac_get_ctx_params: wantSize says whether params holds "size"
cmac_get_ctx_params(m, cm, wantSize) ==
    IF wantSize
    THEN LET sz == cmac_size(m, cm)
         IN  [rv |-> IF sz = UB THEN UB ELSE 1, size |-> sz]
    ELSE [rv |-> 1, size |-> 0]

---------------------------------------------------------------------------
(* cmac_set_ctx_params, statement by statement.  A frame f holds the context
   m, its CMAC_CTX cm, the cipher reference counts R, the engine counters e,
   whether the function has returned (done) and with what (rv), the property
   query read so far, whether CMAC_Init was called (bind) and the staged
   cipher and engine it was handed. *)

AllParams ==
    [cipher : {ABSENT, BADTYPE} \cup CipherNames,
     engine : {ABSENT, BADTYPE} \cup EngineIds,
     properties : {ABSENT, BADTYPE} \cup PropQueries,
     key : {ABSENT, BADTYPE} \cup Keys]

\* The calls the model makes: of the calls that differ only in a parameter
\* the function never looks up (engine and properties when "cipher" is absent
\* or mistyped, whatever follows the statement that returns 0), it keeps
\* those whose unread parameters are absent; engine and properties are kept
\* next to an absent cipher when absent or mistyped.  (In FIPS_MODE "engine"
\* is never looked up, and a call is the same as the one without it.)
Unread(p) ==
    \/ p.cipher = ABSENT /\ (p.engine \in EngineIds \/ p.properties \in PropQueries)
    \/ p.cipher = BADTYPE
         /\ (p.engine # ABSENT \/ p.properties # ABSENT \/ p.key # ABSENT)
    \/ p.cipher \in CipherNames /\ p.engine \in {BADTYPE, "noeng"}
         /\ (p.properties # ABSENT \/ p.key # ABSENT)
    \/ p.cipher \in CipherNames /\ p.properties = BADTYPE /\ p.key # ABSENT

SetParams == {p \in AllParams : ~Unread(p)}

Frame(m, cm, R, e) ==
    [m |-> m, cm |-> cm, R |-> R, e |-> e, done |-> FALSE, rv |-> 1,
     propquery |-> NULL, cipher |-> NULL, engine |-> NULL, bind |-> FALSE]

\* "return rv;"
Return(f, rv) == [f EXCEPT !.done = TRUE, !.rv = rv]

\* the engine step, compiled out in FIPS_MODE
set_engine(f, p) ==
    IF mode = "Restricted" THEN f
    ELSE LET f1 == [f EXCEPT !.e = ENGINE_finish(f.e, f.m.tmpengine),
                             !.m.tmpengine = NULL]
         IN  IF p.engine = ABSENT THEN f1
             ELSE IF p.engine = BADTYPE THEN Return(f1, 0)
             ELSE LET eng == ENGINE_by_id(p.engine)
                      f2 == [f1 EXCEPT !.m.tmpengine = eng,
                                       !.e.refs = IF eng # NULL THEN @ + 1 ELSE @]
                  IN  IF eng = NULL THEN Return(f2, 0) ELSE f2

\* the properties step
set_properties(f, p) ==
    IF p.properties = ABSENT THEN f
    ELSE IF p.properties = BADTYPE THEN Return(f, 0)
    ELSE [f EXCEPT !.propquery = p.properties]

\* the fetch without the release of the cipher owned before
set_fetch_keeps_old(f, p) ==
    LET c == EVP_CIPHER_fetch(p.cipher, f.propquery)
    IN  [f EXCEPT !.R = IF c # NULL THEN [f.R EXCEPT ![c] = @ + 1] ELSE f.R,
                  !.m.tmpcipher = c,
                  !.m.alloc_cipher = c]

\* release the owned cipher and fetch the new one
set_fetch(f, p) ==
    LET R1 == EVP_CIPHER_meth_free(f.R, f.m.alloc_cipher)
        c == EVP_CIPHER_fetch(p.cipher, f.propquery)
    IN  [f EXCEPT !.R = IF c # NULL THEN [R1 EXCEPT ![c] = @ + 1] ELSE R1,
                  !.m.tmpcipher = c,
                  !.m.alloc_cipher = c]

\* the legacy lookup compiled in whatever the mode
set_legacy_in_any_mode(f, p) ==
    IF f.m.tmpcipher = NULL
    THEN [f EXCEPT !.m.tmpcipher = EVP_get_cipherbyname(p.cipher)]
    ELSE f

\* the legacy lookup, compiled out in FIPS_MODE
set_legacy(f, p) ==
    IF mode # "Restricted" /\ f.m.tmpcipher = NULL
    THEN [f EXCEPT !.m.tmpcipher = EVP_get_cipherbyname(p.cipher)]
    ELSE f

\* the block "if cipher is in params"
set_cipher(f, p) ==
    IF p.cipher = ABSENT THEN f
    ELSE IF p.cipher = BADTYPE THEN Return(f, 0)
    ELSE LET f1 == set_engine(f, p)
             f2 == IF f1.done THEN f1 ELSE set_properties(f1, p)
             f3 == IF f2.done THEN f2 ELSE set_legacy(set_fetch(f2, p), p)
         IN  IF ~f3.done /\ f3.m.tmpcipher = NULL THEN Return(f3, 0) ELSE f3

\* the key block without the test of CMAC_Init's result
set_key_unchecked(f, p) ==
    IF p.key = ABSENT THEN f
    ELSE IF p.key = BADTYPE THEN Return(f, 0)
    ELSE LET r == CMAC_Init(f.cm, p.key, f.m.tmpcipher, f.m.tmpengine)
         IN  [f EXCEPT !.cm = r.cm, !.cipher = f.m.tmpcipher,
                       !.engine = f.m.tmpengine, !.bind = TRUE,
                       !.m.tmpcipher = NULL, !.m.tmpengine = NULL]

\* the key block without "macctx->tmpengine = NULL"
set_key_keeps_engine(f, p) ==
    IF p.key = ABSENT THEN f
    ELSE IF p.key = BADTYPE THEN Return(f, 0)
    ELSE LET r == CMAC_Init(f.cm, p.key, f.m.tmpcipher, f.m.tmpengine)
             f1 == [f EXCEPT !.cm = r.cm, !.cipher = f.m.tmpcipher,
                             !.engine = f.m.tmpengine, !.bind = TRUE]
         IN  IF r.rv = 0 THEN Return(f1, 0)
             ELSE [f1 EXCEPT !.m.tmpcipher = NULL]

\* the key block clearing the staged fields when CMAC_Init fails too
set_key_clears_on_failure(f, p) ==
    IF p.key = ABSENT THEN f
    ELSE IF p.key = BADTYPE THEN Return(f, 0)
    ELSE LET r == CMAC_Init(f.cm, p.key, f.m.tmpcipher, f.m.tmpengine)
             f1 == [f EXCEPT !.cm = r.cm, !.cipher = f.m.tmpcipher,
                             !.engine = f.m.tmpengine, !.bind = TRUE,
                             !.m.tmpcipher = NULL, !.m.tmpengine = NULL]
         IN  IF r.rv = 0 THEN Return(f1, 0) ELSE f1

\* the block "if key is in params"
set_key(f, p) ==
    IF p.key = ABSENT THEN f
    ELSE IF p.key = BADTYPE THEN Return(f, 0)
    ELSE LET r == CMAC_Init(f.cm, p.key, f.m.tmpcipher, f.m.tmpengine)
             f1 == [f EXCEPT !.cm = r.cm, !.cipher = f.m.tmpcipher,
                             !.engine = f.m.tmpengine, !.bind = TRUE]
         IN  IF r.rv = 0 THEN Return(f1, 0)
             ELSE [f1 EXCEPT !.m.tmpcipher = NULL, !.m.tmpengine = NULL]

\* cmac_set_ctx_params
cmac_set_ctx_params(m, cm, R, e, p) ==
    LET f1 == set_cipher(Frame(m, cm, R, e), p)
        f2 == IF f1.done THEN f1 ELSE set_key(f1, p)
    IN  IF f2.done THEN f2 ELSE Return(f2, 1)

---------------------------------------------------------------------------
(* The state machine: one action per entry of cmac_functions[] *)

\* what the caller has done to a context: a key was bound in it or in the
\* context it was duplicated from (keyBound), final was called since the last
\* successful init or key set (finalSince), final succeeded and neither init
\* nor a set carrying "key" was called since (finalDone), and the context it
\* was duplicated from, while that one is live (parent)
NoHist ==
    [keyBound |-> FALSE, finalSince |-> FALSE, finalDone |-> FALSE,
     parent |-> NullCtx]

\* the record of a call: the operation, the context, the return value,
\* whether CMAC_Init was called with a key (bind), the staged cipher and
\* engine handed to CMAC_Init, whether params carried "cipher" and "key", the
\* capacity given to final, and the value stored through the out parameter
Call(op, c, rv) ==
    [op |-> op, c |-> c, rv |-> rv, bind |-> FALSE, cipher |-> NULL,
     engine |-> NULL, hasCipher |-> FALSE, hasKey |-> FALSE, outsize |-> 0,
     out |-> 0]

\* the address the allocator hands out next
FreeSlot(S) ==
    IF S \ live = {} THEN NullCtx
    ELSE CHOOSE c \in S \ live : \A d \in S \ live : c <= d

\* values a read through a null pointer may yield when it does not trap
SizeValues == {0, 8, 16}

Init ==
    /\ mode \in Modes
    /\ live = {}
    /\ macctx = [c \in Ctx |-> NoMacCtx]
    /\ cmacs = [c \in Ctx |-> CMAC_CTX_new]
    /\ refs = [h \in FetchedCiphers |-> 0]
    /\ engRefs = 0
    /\ engBad = FALSE
    /\ crashed = FALSE
    /\ last = Call("none", NullCtx, 0)
    /\ hist = [c \in Ctx |-> NoHist]

\* the computation state of context c, now and after the step
Cm(c) == CtxOf(macctx, cmacs, c)
CmNext(c) == CtxOf(macctx', cmacs', c)

\* A call is the conjunction of what the function does to the program
\* (Do_...), of the history of the context (Hist_...) and of the record of
\* the call (Last_...).  A specification of several contexts keeps no record
\* of the last call.
Quiet == UNCHANGED last

Do_cmac_new(S, ok) ==
    /\ ~crashed
    /\ ok => FreeSlot(S) # NullCtx
    /\ \E r \in {cmac_new(macctx, cmacs,
                          IF ok THEN FreeSlot(S) ELSE NullCtx)} :
           /\ macctx' = r.M
           /\ cmacs' = r.C
           /\ live' = IF r.rv = NullCtx THEN live ELSE live \cup {r.rv}
    /\ UNCHANGED <<mode, refs, engRefs, engBad, crashed>>

Hist_cmac_new(S, ok) ==
    \E slot \in {IF ok THEN FreeSlot(S) ELSE NullCtx} :
        hist' = IF slot = NullCtx THEN hist
                ELSE [hist EXCEPT ![slot] = NoHist]

Last_cmac_new(S, ok) ==
    last' = Call("new", NullCtx, IF ok THEN FreeSlot(S) ELSE NullCtx)

Call_cmac_new(S, ok) ==
    Do_cmac_new(S, ok) /\ Hist_cmac_new(S, ok) /\ Last_cmac_new(S, ok)

Do_cmac_free(c) ==
    /\ ~crashed
    /\ c \in live \cup {NullCtx}
    /\ \E r \in {cmac_free(macctx, cmacs, refs, c)} :
           /\ macctx' = r.M
           /\ cmacs' = r.C
           /\ refs' = r.R
    /\ live' = live \ {c}
    /\ UNCHANGED <<mode, engRefs, engBad, crashed>>

Hist_cmac_free(c) ==
    hist' = [d \in Ctx |->
                IF d = c THEN NoHist
                ELSE IF hist[d].parent = c /\ c # NullCtx
                     THEN [hist[d] EXCEPT !.parent = NullCtx]
                     ELSE hist[d]]

Last_cmac_free(c) == last' = Call("free", c, 0)

Call_cmac_free(c) == Do_cmac_free(c) /\ Hist_cmac_free(c) /\ Last_cmac_free(c)

\* what cmac_dup returns; with no destination allocated, the copy reads
\* dst->ctx through NULL and the call does not return
DupResult(S, src, allocOk, copyOk, upOk) ==
    IF ~allocOk THEN UB
    ELSE cmac_dup(macctx, cmacs, refs, src, FreeSlot(S), copyOk, upOk).rv

Do_cmac_dup(S, src, allocOk, copyOk, upOk) ==
    /\ ~crashed
    /\ src \in live
    /\ IF ~allocOk
       THEN /\ crashed' = TRUE
            /\ UNCHANGED <<macctx, cmacs, refs, live>>
       ELSE /\ FreeSlot(S) # NullCtx
            /\ \E r \in {cmac_dup(macctx, cmacs, refs, src, FreeSlot(S),
                                  copyOk, upOk)} :
                   /\ macctx' = r.M
                   /\ cmacs' = r.C
                   /\ refs' = r.R
                   /\ live' = IF r.rv = NullCtx THEN live
                              ELSE live \cup {r.rv}
            /\ UNCHANGED crashed
    /\ UNCHANGED <<mode, engRefs, engBad>>

Hist_cmac_dup(S, src, allocOk, copyOk, upOk) ==
    \E rv \in {DupResult(S, src, allocOk, copyOk, upOk)} :
        hist' = IF rv \in {NullCtx, UB} THEN hist
                ELSE [hist EXCEPT ![rv] = [hist[src] EXCEPT !.parent = src]]

Last_cmac_dup(S, src, allocOk, copyOk, upOk) ==
    last' = Call("dup", src, DupResult(S, src, allocOk, copyOk, upOk))

Call_cmac_dup(S, src, allocOk, copyOk, upOk) ==
    /\ Do_cmac_dup(S, src, allocOk, copyOk, upOk)
    /\ Hist_cmac_dup(S, src, allocOk, copyOk, upOk)
    /\ Last_cmac_dup(S, src, allocOk, copyOk, upOk)

\* got is what the caller gets: the block size, or, when the read goes
\* through a null pointer, a trap (UB) or any value
Do_cmac_size(c, got) ==
    /\ ~crashed
    /\ c \in live
    /\ \E sz \in {cmac_size(macctx[c], Cm(c))} :
           got \in IF sz = UB THEN SizeValues \cup {UB} ELSE {sz}
    /\ crashed' = (got = UB)
    /\ UNCHANGED <<mode, live, macctx, cmacs, refs, engRefs, engBad>>

Call_cmac_size(c, got) ==
    /\ Do_cmac_size(c, got)
    /\ UNCHANGED hist
    /\ last' = Call("size", c, got)

Do_cmac_get_ctx_params(c, wantSize, got) ==
    /\ ~crashed
    /\ c \in live
    /\ \E r \in {cmac_get_ctx_params(macctx[c], Cm(c), wantSize)} :
           got \in IF r.size = UB THEN SizeValues \cup {UB} ELSE {r.size}
    /\ crashed' = (got = UB)
    /\ UNCHANGED <<mode, live, macctx, cmacs, refs, engRefs, engBad>>

Call_cmac_get_ctx_params(c, wantSize, got) ==
    /\ Do_cmac_get_ctx_params(c, wantSize, got)
    /\ UNCHANGED hist
    /\ last' = [Call("get", c, IF got = UB THEN UB ELSE 1) EXCEPT !.out = got]

Do_cmac_init(c) ==
    /\ ~crashed
    /\ c \in live
    /\ \E r \in {cmac_init(macctx[c], Cm(c))} :
           /\ macctx' = [macctx EXCEPT ![c] = r.m]
           /\ cmacs' = [cmacs EXCEPT ![macctx[c].ctx] = r.cm]
    /\ UNCHANGED <<mode, live, refs, engRefs, engBad, crashed>>

Hist_cmac_init(c) ==
    \E r \in {cmac_init(macctx[c], Cm(c))} :
        hist' = [hist EXCEPT ![c].finalDone = FALSE,
                             ![c].finalSince = IF r.rv = 1 THEN FALSE ELSE @]

Last_cmac_init(c) ==
    \E r \in {cmac_init(macctx[c], Cm(c))} :
        last' = [Call("init", c, r.rv) EXCEPT !.cipher = r.cipher,
                                              !.engine = r.engine]

Call_cmac_init(c) == Do_cmac_init(c) /\ Hist_cmac_init(c) /\ Last_cmac_init(c)

Do_cmac_update(c, data) ==
    /\ ~crashed
    /\ c \in live
    /\ Len(Cm(c).msg) + Len(data) <= MaxMsgLen
    /\ \E r \in {cmac_update(macctx[c], Cm(c), data)} :
           cmacs' = [cmacs EXCEPT ![macctx[c].ctx] = r.cm]
    /\ UNCHANGED <<mode, live, macctx, refs, engRefs, engBad, crashed>>

Call_cmac_update(c, data) ==
    /\ Do_cmac_update(c, data)
    /\ UNCHANGED hist
    /\ last' = Call("update", c, cmac_update(macctx[c], Cm(c), data).rv)

Do_cmac_final(c, outsize) ==
    /\ ~crashed
    /\ c \in live
    /\ \E r \in {cmac_final(macctx[c], Cm(c), outsize)} :
           cmacs' = [cmacs EXCEPT ![macctx[c].ctx] = r.cm]
    /\ UNCHANGED <<mode, live, macctx, refs, engRefs, engBad, crashed>>

Hist_cmac_final(c, outsize) ==
    \E r \in {cmac_final(macctx[c], Cm(c), outsize)} :
        hist' = [hist EXCEPT ![c].finalSince = TRUE,
                             ![c].finalDone = IF r.rv = 1 THEN TRUE ELSE @]

Last_cmac_final(c, outsize) ==
    \E r \in {cmac_final(macctx[c], Cm(c), outsize)} :
        last' = [Call("final", c, r.rv) EXCEPT !.outsize = outsize,
                                               !.out = r.written]

Call_cmac_final(c, outsize) ==
    /\ Do_cmac_final(c, outsize)
    /\ Hist_cmac_final(c, outsize)
    /\ Last_cmac_final(c, outsize)

\* cmac_set_ctx_params on context c
SetResult(c, p) ==
    cmac_set_ctx_params(macctx[c], Cm(c), refs,
                        [refs |-> engRefs, bad |-> engBad], p)

Do_cmac_set_ctx_params(c, p) ==
    /\ ~crashed
    /\ c \in live
    /\ \E f \in {SetResult(c, p)} :
           /\ f.e.refs <= MaxEngRefs
           /\ macctx' = [macctx EXCEPT ![c] = f.m]
           /\ cmacs' = [cmacs EXCEPT ![macctx[c].ctx] = f.cm]
           /\ refs' = f.R
           /\ engRefs' = f.e.refs
           /\ engBad' = f.e.bad
    /\ UNCHANGED <<mode, live, crashed>>

Hist_cmac_set_ctx_params(c, p) ==
    \E f \in {SetResult(c, p)} :
        hist' = [hist EXCEPT
            ![c].keyBound = IF f.bind /\ f.rv = 1 THEN TRUE ELSE @,
            ![c].finalSince = IF f.bind /\ f.rv = 1 THEN FALSE ELSE @,
            ![c].finalDone = IF p.key # ABSENT THEN FALSE ELSE @]

Last_cmac_set_ctx_params(c, p) ==
    \E f \in {SetResult(c, p)} :
        last' = [Call("set", c, f.rv) EXCEPT
            !.bind = f.bind,
            !.cipher = f.cipher,
            !.engine = f.engine,
            !.hasCipher = (p.cipher # ABSENT),
            !.hasKey = (p.key # ABSENT)]

Call_cmac_set_ctx_params(c, p) ==
    /\ Do_cmac_set_ctx_params(c, p)
    /\ Hist_cmac_set_ctx_params(c, p)
    /\ Last_cmac_set_ctx_params(c, p)

\* One context from new to free, every call the dispatch table offers on it
OneCtx == {1}

Next ==
    \/ \E ok \in BOOLEAN : Call_cmac_new(OneCtx, ok)
    \/ \E c \in OneCtx \cup {NullCtx} : Call_cmac_free(c)
    \/ \E c \in OneCtx, g \in SizeValues \cup {UB, 8, 16} : Call_cmac_size(c, g)
    \/ \E c \in OneCtx, w \in BOOLEAN, g \in SizeValues \cup {UB, 8, 16} :
           Call_cmac_get_ctx_params(c, w, g)
    \/ \E c \in OneCtx : Call_cmac_init(c)
    \/ \E c \in OneCtx, d \in Chunks : Call_cmac_update(c, d)
    \/ \E c \in OneCtx, n \in OutSizes : Call_cmac_final(c, n)
    \/ \E c \in OneCtx, p \in SetParams : Call_cmac_set_ctx_params(c, p)

Spec == Init /\ [][Next]_vars

\* A context and its duplicate, either of which may be the source, and the
\* calls that move the computation state: one cipher, the key that fits it
\* and the key it rejects, no engine and no property query, one chunk, one
\* capacity.
TwoCtx == {1, 2}

InitStandard == Init /\ mode = "Standard"

DupParams ==
    {p \in SetParams :
        /\ p.cipher \in {ABSENT, "AES-128-CBC"}
        /\ p.key \in {ABSENT} \cup Keys
        /\ p.engine = ABSENT /\ p.properties = ABSENT
        /\ (p.cipher # ABSENT \/ p.key # ABSENT)}

\* The calls on several contexts: of the history, only which context was
\* duplicated from which is kept.
Quiet_new(S, ok) == Do_cmac_new(S, ok) /\ Hist_cmac_new(S, ok) /\ Quiet
Quiet_free(c) == Do_cmac_free(c) /\ Hist_cmac_free(c) /\ Quiet
Quiet_dup(S, c, a, b, u) ==
    Do_cmac_dup(S, c, a, b, u) /\ Hist_cmac_dup(S, c, a, b, u) /\ Quiet
Quiet_init(c) == Do_cmac_init(c) /\ UNCHANGED hist /\ Quiet
Quiet_update(c, d) == Do_cmac_update(c, d) /\ UNCHANGED hist /\ Quiet
Quiet_final(c, n) == Do_cmac_final(c, n) /\ UNCHANGED hist /\ Quiet
Quiet_set(c, p) == Do_cmac_set_ctx_params(c, p) /\ UNCHANGED hist /\ Quiet

NextDup ==
    \/ \E ok \in BOOLEAN : Quiet_new(TwoCtx, ok)
    \/ \E c \in TwoCtx : Quiet_free(c)
    \/ \E c \in TwoCtx, a, b, u \in BOOLEAN : Quiet_dup(TwoCtx, c, a, b, u)
    \/ \E c \in TwoCtx : Quiet_init(c)
    \/ \E c \in TwoCtx : Quiet_update(c, <<0>>)
    \/ \E c \in TwoCtx : Quiet_final(c, 16)
    \/ \E c \in TwoCtx, p \in DupParams : Quiet_set(c, p)

SpecDup == InitStandard /\ [][NextDup]_vars

\* Several contexts and their duplicates, and the calls that move the
\* ownership of the cipher descriptors: every way of setting the cipher with
\* no engine and no key, init, duplicate and free, in both modes.
RefParams ==
    {p \in SetParams :
        p.cipher # ABSENT /\ p.engine = ABSENT /\ p.key = ABSENT}

NextRefs ==
    \/ \E ok \in BOOLEAN : Quiet_new(Ctx, ok)
    \/ \E c \in Ctx : Quiet_free(c)
    \/ \E c \in Ctx, a, b, u \in BOOLEAN : Quiet_dup(Ctx, c, a, b, u)
    \/ \E c \in Ctx : Quiet_init(c)
    \/ \E c \in Ctx, p \in RefParams : Quiet_set(c, p)

SpecRefs == Init /\ [][NextRefs]_vars

\* Several contexts and their duplicates, and the calls that move the engine
\* references: a cipher set with or without the engine, init, duplicate and
\* free.
EngParams ==
    {p \in SetParams :
        /\ p.cipher = "AES-128-CBC"
        /\ p.engine \in {ABSENT, "e1"}
        /\ p.properties = ABSENT /\ p.key = ABSENT}

NextEng ==
    \/ \E ok \in BOOLEAN : Quiet_new(Ctx, ok)
    \/ \E c \in Ctx : Quiet_free(c)
    \/ \E c \in Ctx, a, b, u \in BOOLEAN : Quiet_dup(Ctx, c, a, b, u)
    \/ \E c \in Ctx : Quiet_init(c)
    \/ \E c \in Ctx, p \in EngParams : Quiet_set(c, p)

SpecEng == InitStandard /\ [][NextEng]_vars

\* A context and its duplicate with every call recorded: new, free,
\* duplicate with each outcome of its steps, init and set.
NextCalls ==
    \/ \E ok \in BOOLEAN : Call_cmac_new(TwoCtx, ok)
    \/ \E c \in TwoCtx : Call_cmac_free(c)
    \/ \E c \in TwoCtx, a, b, u \in BOOLEAN : Call_cmac_dup(TwoCtx, c, a, b, u)
    \/ \E c \in TwoCtx : Call_cmac_init(c)
    \/ \E c \in TwoCtx, p \in DupParams : Call_cmac_set_ctx_params(c, p)

SpecCalls == InitStandard /\ [][NextCalls]_vars

\* One context and the calls that resolve a cipher: every name with and
\* without a property query, with and without a key, in both modes.
ResolveParams ==
    {p \in SetParams :
        /\ p.cipher \in CipherNames
        /\ p.engine = ABSENT
        /\ p.properties \in {ABSENT} \cup PropQueries}

NextResolve ==
    \/ \E ok \in BOOLEAN : Call_cmac_new(OneCtx, ok)
    \/ \E c \in OneCtx : Call_cmac_free(c)
    \/ \E c \in OneCtx : Call_cmac_init(c)
    \/ \E c \in OneCtx, p \in ResolveParams : Call_cmac_set_ctx_params(c, p)

SpecResolve == Init /\ [][NextResolve]_vars

---------------------------------------------------------------------------
(* The claims about one context, checked under Spec *)

\* Empty: freshly created, nothing staged, nothing owned, nothing bound
IsEmpty(c) ==
    /\ c \in live
    /\ macctx[c] = [NoMacCtx EXCEPT !.ctx = macctx[c].ctx]
    /\ Cm(c) = CMAC_CTX_new

\* Bound or Updated: the computation state is live and not finalized
IsBound(c) == c \in live /\ Cm(c).inited /\ ~Cm(c).finalized

\* C1: init on a context in the Empty state returns failure, and the context
\* is not Bound afterwards: an update that follows fails.
C1_InitOnEmptyFails ==
    [][\A c \in Ctx :
          (IsEmpty(c) /\ last'.op = "init" /\ last'.c = c)
          => /\ last'.rv = 0
             /\ \A d \in Chunks :
                    cmac_update(macctx'[c], CmNext(c), d).rv = 0]_vars

\* an init has failed on a context that is Empty
C1_Witness ==
    /\ last.op = "init" /\ last.rv = 0 /\ last.cipher = NULL
    /\ last.engine = NULL
    /\ IsEmpty(last.c)

\* C2: final on a Bound or Updated context with a capacity smaller than the
\* output size returns failure, writes nothing, and a final that follows with
\* a sufficient capacity succeeds.
C2_FinalRejectsSmallBuffer ==
    [][\A c \in Ctx :
          (/\ IsBound(c)
           /\ last'.op = "final" /\ last'.c = c
           /\ last'.outsize < cmac_size(macctx[c], Cm(c)))
          => /\ last'.rv = 0
             /\ last'.out = 0
             /\ cmac_final(macctx'[c], CmNext(c), 16).rv = 1]_vars

C5_KeyWithoutStagedCipher ==
    [][\A c \in Ctx :
          (/\ c \in live /\ macctx[c].tmpcipher = NULL
           /\ last'.op = "set" /\ last'.c = c
           /\ last'.hasKey /\ ~last'.hasCipher)
          => (last'.rv = 0 /\ CmNext(c) = Cm(c))]_vars

\* C5, amended: a set call that carries the key on a context where no cipher
\* is staged and none was installed in the computation state by an earlier
\* bind fails and leaves the computation state as it was.
C5_KeyWithoutAnyCipher ==
    [][\A c \in Ctx :
          (/\ c \in live /\ macctx[c].tmpcipher = NULL
           /\ Cm(c).cipher = NULL
           /\ last'.op = "set" /\ last'.c = c
           /\ last'.hasKey /\ ~last'.hasCipher)
          => (last'.rv = 0 /\ CmNext(c) = Cm(c))]_vars

\* a set call has handed a key to the bind of a context with no cipher at all
C5_Witness ==
    /\ last.op = "set" /\ last.bind /\ ~last.hasCipher
    /\ last.cipher = NULL /\ last.rv = 0
    /\ Cm(last.c).cipher = NULL

\* C6: once a set call has successfully staged a cipher, bound or
\* not, the size query and the "size" parameter give its block size.
C6_SizeOfStagedCipher ==
    (last.op = "set" /\ last.rv = 1 /\ last.hasCipher)
    => LET staged == IF last.bind THEN last.cipher
                     ELSE macctx[last.c].tmpcipher
       IN  /\ cmac_size(macctx[last.c], Cm(last.c)) = BlockSize(staged)
           /\ cmac_get_ctx_params(macctx[last.c], Cm(last.c), TRUE).size
                  = BlockSize(staged)

\* C8: when init, or a set call carrying the key, has bound the staged cipher
\* and engine, both staged fields are empty when the call returns.
C8_StagedClearedByBind ==
    (last.op = "init" \/ (last.op = "set" /\ last.bind /\ last.rv = 1))
    => /\ macctx[last.c].tmpcipher = NULL
       /\ macctx[last.c].tmpengine = NULL

\* a set call has bound a staged cipher together with a staged engine
C8_Witness ==
    /\ last.op = "set" /\ last.bind /\ last.rv = 1
    /\ last.cipher # NULL /\ last.engine # NULL

\* C9: once the context is freed, every engine reference it acquired has
\* been released.
C9_EngineReleasedByFree ==
    (last.op = "free" /\ live = {}) => engRefs = 0

---------------------------------------------------------------------------
(* The claims about several contexts *)

\* a call of the data or parameter interface on context c
ActsOn(c) ==
    \/ Do_cmac_init(c)
    \/ \E d \in Chunks : Do_cmac_update(c, d)
    \/ \E n \in OutSizes : Do_cmac_final(c, n)
    \/ \E p \in DupParams : Do_cmac_set_ctx_params(c, p)

\* C7 (under SpecDup): the context a successful cmac_dup creates has the
\* computation state its source had, and the source keeps it; and a call of
\* update, final, init or set on one context leaves the computation state of
\* every other live context, and the MAC it will produce, as they were,
\* whichever of a source and its copy the call is on.
C7_DuplicateIsIndependent ==
    [][/\ \A d \in live' \ live :
             hist'[d].parent # NullCtx
             => /\ CmNext(d) = Cm(hist'[d].parent)
                /\ CmNext(hist'[d].parent) = Cm(hist'[d].parent)
       /\ \A c \in live :
             ActsOn(c)
             => \A d \in live \ {c} :
                    /\ CmNext(d) = Cm(d)
                    /\ MacOf(CmNext(d)) = MacOf(Cm(d))]_vars

\* a source and its copy, bound with the same key, have taken different data
C7_Witness ==
    \E d \in live :
        /\ hist[d].parent \in live
        /\ Cm(d).inited /\ Cm(hist[d].parent).inited
        /\ Cm(d).key = Cm(hist[d].parent).key
        /\ Cm(d).msg # Cm(hist[d].parent).msg

\* C10 (under SpecRefs): the references outstanding on each fetched cipher
\* descriptor are as many as the live contexts that own it, whatever calls
\* of new, set, init, duplicate and free were made; with no live context no
\* reference remains, and no descriptor was released more often than taken.
C10_CipherRefsConserved ==
    /\ \A h \in FetchedCiphers :
           refs[h] = Cardinality({c \in live : macctx[c].alloc_cipher = h})
    /\ \A c \in Ctx \ live : macctx[c].alloc_cipher = NULL

\* a context and its duplicate own the same descriptor, with two references
C10_Witness ==
    \E d \in live :
        /\ hist[d].parent \in live
        /\ macctx[d].alloc_cipher # NULL
        /\ macctx[d].alloc_cipher = macctx[hist[d].parent].alloc_cipher
        /\ refs[macctx[d].alloc_cipher] = 2

\* C11 (under SpecEng): whatever calls of set, init and free follow the
\* duplication of a context with a staged engine, on the source and on the
\* copy, no engine handle is released more often than it was acquired.
C11_EngineNeverOverReleased == ~engBad

\* the set call on c returns 0 from inside the engine step or the properties
\* step, before the cipher is fetched
FailsBeforeFetch(c, p) ==
    /\ p.cipher \in CipherNames
    /\ LET f1 == set_engine(Frame(macctx[c], Cm(c), refs,
                                  [refs |-> engRefs, bad |-> engBad]), p)
       IN  f1.done \/ set_properties(f1, p).done

\* C12 (under Spec): a set call that carries the cipher and fails on the type
\* of the engine or of the properties, or on the resolution of the engine,
\* leaves the staged cipher, the owned cipher reference and the staged engine
\* of the context as they were before the call.
C12_FailedSetIsAtomic ==
    [][\A c \in Ctx :
          (last'.op = "set" /\ last'.c = c /\ last'.rv = 0 /\ last'.hasCipher)
          => \A p \in SetParams :
                 (FailsBeforeFetch(c, p) /\ Call_cmac_set_ctx_params(c, p))
                 => /\ macctx'[c].tmpcipher = macctx[c].tmpcipher
                    /\ macctx'[c].alloc_cipher = macctx[c].alloc_cipher
                    /\ refs' = refs
                    /\ macctx'[c].tmpengine = macctx[c].tmpengine]_vars

\* C13 (under SpecCalls): when cmac_dup returns NULL because the copy of the
\* computation state or the increment of the cipher reference failed, no
\* context is live that was not live before, every context (the source among
\* them) and every computation state is as it was, and so is every cipher
\* reference count.
C13_FailedDupLeavesNothing ==
    [][(last'.op = "dup" /\ last'.rv = NullCtx)
       => /\ live' = live
          /\ macctx' = macctx
          /\ cmacs' = cmacs
          /\ refs' = refs]_vars

\* cmac_dup has failed on a source that owns a fetched cipher and is bound
C13_Witness ==
    /\ last.op = "dup" /\ last.rv = NullCtx
    /\ macctx[last.c].alloc_cipher # NULL
    /\ Cm(last.c).inited
    /\ refs[macctx[last.c].alloc_cipher] = 1

\* a set call on context d, made after the set call on context c has changed
\* the reference counts from R and e, or made alone
SetAfter(c, p, d, q) ==
    LET a == SetResult(c, p)
    IN  cmac_set_ctx_params(macctx[d], Cm(d), a.R, a.e, q)

\* C14 (under SpecEng): for a source and its duplicate, a call on one made
\* after a call on the other gives it the results and the state that the same
\* call made alone gives it, and is as well defined; the contexts share no
\* computation state.
C14_InterleavingKeepsResults ==
    \A c \in live, d \in live :
        (c # d /\ (hist[d].parent = c \/ hist[c].parent = d))
        => /\ macctx[c].ctx # macctx[d].ctx
           /\ \A p \in EngParams, q \in EngParams :
                  LET alone == SetResult(d, q)
                      after == SetAfter(c, p, d, q)
                  IN  (~SetResult(c, p).e.bad /\ ~alone.e.bad)
                      => /\ after.m = alone.m
                         /\ after.cm = alone.cm
                         /\ after.rv = alone.rv
                         /\ ~after.e.bad

\* C15 (under SpecCalls): cmac_dup returns a context or NULL whatever the
\* outcome of its steps; when the destination is not allocated it returns
\* NULL and no field of the destination is read or written.
C15_DupChecksAllocation ==
    last.op = "dup" => (~crashed /\ last.rv \in TwoCtx \cup {NullCtx})

\* what the resolver gives for a name and a property query in the mode: the
\* fetched descriptor if the fetch resolves, else the legacy one unless the
\* mode is restricted
Resolved(name, propquery) ==
    IF EVP_CIPHER_fetch(name, propquery) # NULL
    THEN EVP_CIPHER_fetch(name, propquery)
    ELSE IF mode # "Restricted" THEN EVP_get_cipherbyname(name) ELSE NULL

\* C16 (under SpecResolve): a set call that reaches the resolution of the
\* cipher owns what the fetch gave, and nothing if the fetch did not resolve;
\* stages the fetched descriptor, else the legacy one unless the mode is
\* restricted; and returns 0 with no cipher staged when neither resolves.
C16_ResolutionOrder ==
    [][\A c \in OneCtx :
          (last'.op = "set" /\ last'.c = c /\ last'.hasCipher)
          => \A p \in ResolveParams :
                 Call_cmac_set_ctx_params(c, p)
                 => LET q == IF p.properties = ABSENT THEN NULL
                             ELSE p.properties
                        staged == IF last'.bind /\ last'.rv = 1
                                  THEN last'.cipher
                                  ELSE macctx'[c].tmpcipher
                    IN  /\ macctx'[c].alloc_cipher
                               = EVP_CIPHER_fetch(p.cipher, q)
                        /\ staged = Resolved(p.cipher, q)
                        /\ Resolved(p.cipher, q) = NULL => last'.rv = 0]_vars

\* a set call has staged a cipher that only the legacy lookup resolved, and
\* the context owns nothing
C16_Witness ==
    /\ last.op = "set" /\ last.rv = 1 /\ last.hasCipher /\ ~last.bind
    /\ macctx[last.c].tmpcipher \in LegacyCiphers
    /\ macctx[last.c].alloc_cipher = NULL

\* C17 (under Spec): a set call that carries an engine or properties of a
\* type other than string returns 0, with or without the cipher in the same
\* call.
C17_TypesCheckedIndependently ==
    [][\A c \in OneCtx :
          (last'.op = "set" /\ last'.c = c /\ last'.rv # 0)
          => \A p \in SetParams :
                 (p.engine = BADTYPE \/ p.properties = BADTYPE)
                 => ~Call_cmac_set_ctx_params(c, p)]_vars

\* C18 (under SpecRefs): in every live context a staged cipher that is a
\* fetched descriptor is the descriptor the context owns, and at least one
\* reference is outstanding on it.
C18_StagedFetchedIsOwned ==
    \A c \in live :
        macctx[c].tmpcipher \in FetchedCiphers
        => /\ macctx[c].alloc_cipher = macctx[c].tmpcipher
           /\ refs[macctx[c].tmpcipher] >= 1

\* the context in the second slot holds a staged fetched cipher on its one
\* reference after the context in the first slot was freed
C18_Witness ==
    /\ live = {2}
    /\ macctx[2].tmpcipher \in FetchedCiphers
    /\ refs[macctx[2].tmpcipher] = 1

\* a set call that carries the key alone
KeyOnly(k) ==
    [cipher |-> ABSENT, engine |-> ABSENT, properties |-> ABSENT, key |-> k]

====
